---- MODULE Spec2Model ----
(***************************************************************************)
(* Model of src/streamlit_app.py, the livestock-disease dashboard.         *)
(*                                                                         *)
(* The script is re-executed from top to bottom on the first page load and *)
(* after every widget change, so the state machine has one action for the  *)
(* first run (Load) and one per change of a sidebar widget (SelectYear,     *)
(* SelectMonth, AddRegion, RemoveRegion); each action performs ONE         *)
(* COMPLETE RUN of the script and leaves in the variables what that run    *)
(* displayed.                                                              *)
(*                                                                         *)
(* Column names of the CSV are Korean in the source; the model uses        *)
(*    "ym" for 연월, "year" for 연, "month" for 월, "total" for 소계,        *)
(* and one-letter names for the region columns.                            *)
(*                                                                         *)
(* A data frame is a record [columns |-> sequence of column names,         *)
(* rows |-> sequence of rows], a row being a function from column names to *)
(* cells.  A numeric cell is a count >= 0 or NaN.                          *)
(***************************************************************************)
EXTENDS Integers, Sequences, FiniteSets, TLC

VARIABLES
    pc,                \* "start" before the first run, "ready" afterwards
    csv,               \* the file read by load_data: raw, uncoerced cells
    df,                \* module-level df after load_data and ensure_total_col
    selected_year,     \* sidebar selectbox (0 before the first run)
    selected_month,    \* sidebar selectbox, 1..12
    selected_regions,  \* sidebar multiselect, in the order the user picked
    monthly_total,     \* 12-month series of the selected year
    ytd,               \* displayed year-to-date value
    ytd_prev,          \* <<v>> when computed, <<>> for None
    delta_str,         \* characters of the formatted delta, <<>> for None
    df_selected,       \* rows of the selected year-month (or the zero row)
    total_cases,       \* the "total cases" tile
    region_sums,       \* col[0] per-region sums, <<>> when not computed
    max_metric,        \* <<region, value>> of the max tile, <<>> when absent
    min_metric,        \* <<region, value>> of the min tile, <<>> when absent
    trend,             \* rows of the line chart
    region_sums_df,    \* col[1] bar-chart data, <<>> when not computed
    heatmap_data,      \* region -> month -> value, <<>> when not computed
    top_regions,       \* col[2] ranking, <<>> when not computed
    shown,             \* which kind of element each guarded slot displayed
    fault              \* exception that ended the run, "none" otherwise

vars == <<pc, csv, df, selected_year, selected_month, selected_regions,
          monthly_total, ytd, ytd_prev, delta_str, df_selected, total_cases,
          region_sums, max_metric, min_metric, trend, region_sums_df,
          heatmap_data, top_regions, shown, fault>>

-----------------------------------------------------------------------------
(* Bounds of the model.                                                    *)

\* Largest number of data rows of a generated CSV file.
MaxRows == 2

\* A region can be added to the selection while it holds fewer than MaxPick
\* regions (regions can always be removed).
MaxPick == 2

-----------------------------------------------------------------------------
(* Cells and generic sequence helpers.                                     *)

\* pandas' missing value.  Counts are >= 0, so -1 is free to stand for it.
NaN == 0 - 1

isna(v) == v = NaN

Range(s) == {s[i] : i \in 1..Len(s)}

RECURSIVE SumSeq(_)
SumSeq(s) == IF s = <<>> THEN 0 ELSE Head(s) + SumSeq(Tail(s))

\* Series.sum() / DataFrame.sum(): skipna=True, an all-NaN or empty input
\* sums to 0.
SumSkipNa(s) == SumSeq(SelectSeq(s, LAMBDA v : ~isna(v)))

\* A column of a frame, as a sequence of cells in row order.
Column(frame, c) == [i \in 1..Len(frame.rows) |-> frame.rows[i][c]]

\* Boolean-mask row filter frame[frame[c] == v].
Where(frame, c, v) ==
    [columns |-> frame.columns,
     rows    |-> SelectSeq(frame.rows, LAMBDA r : r[c] = v)]

InColumns(frame, c) == c \in Range(frame.columns)

-----------------------------------------------------------------------------
(* load_data, regions_all, ensure_total_col.                               *)

\* pd.to_numeric(errors="coerce") on one raw cell: a raw cell is <<v>> for
\* text that parses to the number v and <<>> for blank or unparseable text.
to_numeric(raw) == IF raw = <<>> THEN NaN ELSE raw[1]

load_data(file) ==
    LET cols == file.columns
        Coerce(r) ==
            [c \in Range(cols) \cup {"year", "month"} |->
                IF c = "year" THEN r["ym"] \div 100
                ELSE IF c = "month" THEN r["ym"] % 100
                ELSE IF c = "ym" THEN r["ym"]
                ELSE to_numeric(r[c])]
    IN  [columns |-> cols \o <<"year", "month">>,
         rows    |-> [i \in 1..Len(file.rows) |-> Coerce(file.rows[i])]]

\* Computed once from the loaded frame, before the total column is ensured.
regions_all(file) ==
    SelectSeq(load_data(file).columns,
              LAMBDA c : c \notin {"ym", "year", "month", "total"})

RowRegionSum(row, regions) ==
    SumSkipNa([j \in 1..Len(regions) |-> row[regions[j]]])

ensure_total_col_healall(frame, regions) ==
    LET Heal(r) == [c \in DOMAIN r \cup {"total"} |->
                      IF c = "total"
                      THEN IF "total" \in DOMAIN r /\ ~isna(r["total"])
                           THEN r["total"]
                           ELSE RowRegionSum(r, regions)
                      ELSE r[c]]
    IN  [columns |-> IF InColumns(frame, "total") THEN frame.columns
                     ELSE Append(frame.columns, "total"),
         rows    |-> [i \in 1..Len(frame.rows) |-> Heal(frame.rows[i])]]

ensure_total_col(frame, regions) ==
    IF ~InColumns(frame, "total")
       \/ \A i \in 1..Len(frame.rows) : isna(frame.rows[i]["total"])
    THEN [columns |-> IF InColumns(frame, "total") THEN frame.columns
                      ELSE Append(frame.columns, "total"),
          rows    |-> [i \in 1..Len(frame.rows) |->
                         [c \in DOMAIN frame.rows[i] \cup {"total"} |->
                            IF c = "total"
                            THEN RowRegionSum(frame.rows[i], regions)
                            ELSE frame.rows[i][c]]]]
    ELSE frame

\* Lines 40-52: the module-level df.
LoadedFrame(file) == ensure_total_col(load_data(file), regions_all(file))

-----------------------------------------------------------------------------
(* Program constants.                                                      *)

\* range(1, 13): the last month of month_options and of every reindex.
LastMonth == 12

\* head(5) of the ranking.
TopN == 5

\* range(1, 13) as the sequence of labels it yields.
MonthRange == [i \in 1..LastMonth |-> i]

-----------------------------------------------------------------------------
(* Sidebar: year and month options.                                        *)

Max(S) == CHOOSE x \in S : \A y \in S : y <= x
Min(S) == CHOOSE x \in S : \A y \in S : x <= y

RECURSIVE SortedSeq(_)
SortedSeq(S) == IF S = {} THEN <<>> ELSE <<Min(S)>> \o SortedSeq(S \ {Min(S)})

\* df["year"].unique(), as a set.
YearsOf(frame) == Range(Column(frame, "year"))

\* sorted(df["year"].unique())
year_options(frame) == SortedSeq(YearsOf(frame))

YearRows(frame, y) == Where(frame, "year", y)

\* Largest month of the year that has data, 12 when the year has none.
default_month(frame, y) ==
    LET year_months == Column(YearRows(frame, y), "month")
    IN  IF year_months # <<>> THEN Max(Range(year_months)) ELSE LastMonth

-----------------------------------------------------------------------------
(* Series: a sequence of <<label, value>> pairs.                           *)

Labels(series) == [i \in 1..Len(series) |-> series[i][1]]
Values(series) == [i \in 1..Len(series) |-> series[i][2]]

\* frame.groupby(key)[col].sum(): one entry per key value present, keys
\* ascending, each the NaN-skipping sum of the group's cells.
GroupKeys(frame, key) == SortedSeq(Range(Column(frame, key)))

GroupSums(frame, key, col, keys) ==
    [j \in 1..Len(keys) |->
        <<keys[j],
          SumSkipNa(Column(Where(frame, key, keys[j]), col))>>]

groupby_sum(frame, key, col) ==
    GroupSums(frame, key, col, GroupKeys(frame, key))

\* series.reindex(labels, fill_value=fill)
reindex_dropfill(series, labels, fill) ==
    [i \in 1..Len(labels) |->
        <<labels[i],
          IF \E j \in 1..Len(series) : series[j][1] = labels[i]
          THEN series[CHOOSE j \in 1..Len(series) : series[j][1] = labels[i]][2]
          ELSE NaN>>]

reindex(series, labels, fill) ==
    [i \in 1..Len(labels) |->
        <<labels[i],
          IF \E j \in 1..Len(series) : series[j][1] = labels[i]
          THEN series[CHOOSE j \in 1..Len(series) : series[j][1] = labels[i]][2]
          ELSE fill>>]

\* Lines 98-103 (and 108-112 for the previous year, 166-169 for the trend):
\* the year's rows, their total ensured, summed per month, on months 1..12.
monthly_series(frame, y, regions) ==
    reindex(groupby_sum(ensure_total_col(YearRows(frame, y), regions),
                        "month", "total"),
            MonthRange, 0)

\* int(series.loc[lo:hi].sum()): label slice, both ends included.
loc_sum_exclusive(series, lo, hi) ==
    SumSkipNa(Values(SelectSeq(series, LAMBDA e : lo <= e[1] /\ e[1] < hi)))

loc_sum(series, lo, hi) ==
    SumSkipNa(Values(SelectSeq(series, LAMBDA e : lo <= e[1] /\ e[1] <= hi)))

\* (selected_year - 1) in df["year"].unique()
has_prev_always(frame, y) == TRUE

has_prev(frame, y) == (y - 1) \in YearsOf(frame)

-----------------------------------------------------------------------------
(* f"{n:+,}": sign, then decimal digits with a comma every three digits.   *)

DigitChars == <<"0", "1", "2", "3", "4", "5", "6", "7", "8", "9">>

RECURSIVE Digits(_)
Digits(n) == IF n < 10 THEN <<DigitChars[n + 1]>>
             ELSE Append(Digits(n \div 10), DigitChars[(n % 10) + 1])

RECURSIVE Grouped(_)
Grouped(ds) == IF Len(ds) <= 3 THEN ds
               ELSE Grouped(SubSeq(ds, 1, Len(ds) - 3)) \o <<",">>
                    \o SubSeq(ds, Len(ds) - 2, Len(ds))

format_signed(n) ==
    <<IF n < 0 THEN "-" ELSE "+">> \o Grouped(Digits(IF n < 0 THEN 0 - n ELSE n))

-----------------------------------------------------------------------------
(* Lines 128-137: the rows of the selected year-month.                     *)

zero_row(y, m, regions) ==
    [c \in Range(regions) \cup {"ym", "year", "month", "total"} |->
        IF c = "ym" THEN y * 100 + m
        ELSE IF c = "year" THEN y
        ELSE IF c = "month" THEN m
        ELSE 0]

df_selected_month_only(frame, y, m, regions) ==
    LET row == Where(frame, "month", m)
    IN  IF row.rows = <<>>
        THEN [columns |-> regions \o <<"ym", "year", "month", "total">>,
              rows    |-> <<zero_row(y, m, regions)>>]
        ELSE row

df_selected_of(frame, y, m, regions) ==
    LET row == Where(Where(frame, "year", y), "month", m)
    IN  IF row.rows = <<>>
        THEN [columns |-> regions \o <<"ym", "year", "month", "total">>,
              rows    |-> <<zero_row(y, m, regions)>>]
        ELSE row

-----------------------------------------------------------------------------
(* Lines 150-160, 196-203, 253-260: tiles and per-region aggregation.      *)

\* int(df_selected["total"].sum()); the region selection plays no part.
total_cases_of_regions(sel_frame, sel) ==
    SumSeq([j \in 1..Len(sel) |-> SumSkipNa(Column(sel_frame, sel[j]))])

total_cases_of(sel_frame, sel) == SumSkipNa(Column(sel_frame, "total"))

\* `not selected_regions`
no_regions_never(sel) == FALSE

no_regions(sel) == sel = <<>>

\* df_selected[selected_regions].sum().fillna(0): one entry per selected
\* region, in selection order.
region_sums_of(sel_frame, sel) ==
    [j \in 1..Len(sel) |->
        <<sel[j],
          LET v == SumSkipNa(Column(sel_frame, sel[j]))
          IN  IF isna(v) THEN 0 ELSE v>>]

\* Series.idxmax() / idxmin(): the label of the FIRST occurrence of the
\* extreme value; ValueError on an empty series.
idxmax_last(series) ==
    IF series = <<>> THEN "ValueError"
    ELSE LET mx == Max(Range(Values(series)))
         IN  series[Max({i \in 1..Len(series) : series[i][2] = mx})][1]

idxmax(series) ==
    IF series = <<>> THEN "ValueError"
    ELSE LET mx == Max(Range(Values(series)))
         IN  series[Min({i \in 1..Len(series) : series[i][2] = mx})][1]

idxmin(series) ==
    IF series = <<>> THEN "ValueError"
    ELSE LET mn == Min(Range(Values(series)))
         IN  series[Min({i \in 1..Len(series) : series[i][2] = mn})][1]

\* sort_values(by, ascending=False) with the default kind="quicksort": the
\* rows come out in descending order of value; the algorithm is not stable,
\* so the relative order of rows with equal values is whatever the sort
\* routine of the installed numpy produces.  Every order a descending sort
\* can return is an outcome.
RECURSIVE DescendingOrders(_, _)
DescendingOrders(series, idx) ==
    IF idx = {} THEN {<<>>}
    ELSE LET mx == Max({series[i][2] : i \in idx})
             firsts == {i \in idx : series[i][2] = mx}
         IN  UNION {{<<series[t]>> \o rest :
                        rest \in DescendingOrders(series, idx \ {t})} :
                    t \in firsts}

sort_values_descending(series) == DescendingOrders(series, 1..Len(series))

\* DataFrame.head(n)
head(rows, n) == SubSeq(rows, 1, IF Len(rows) < n THEN Len(rows) ELSE n)

\* The rankings the run may display.
top_regions_outcomes(sums) ==
    {head(o, TopN) : o \in sort_values_descending(sums)}

-----------------------------------------------------------------------------
(* Lines 219-230: the heat map.                                            *)

\* melt(value_vars=selected).groupby(["month", "region"]).sum()
\*   .reindex(product(1..12, selected), fill_value=0).pivot(region x month)
\* The melted rows of each month of the index, grouped.
MonthGroups(df_year_full) ==
    [k \in Range(MonthRange) |->
        SelectSeq(df_year_full.rows, LAMBDA row : row["month"] = k)]

HeatCell(group, r, fill) ==
    IF group = <<>> THEN fill ELSE SumSkipNa([i \in 1..Len(group) |-> group[i][r]])

HeatMatrix(groups, sel, fill) ==
    [r \in Range(sel) |-> [k \in DOMAIN groups |-> HeatCell(groups[k], r, fill)]]

heatmap_nofill(frame, y, sel, regions) ==
    HeatMatrix(MonthGroups(ensure_total_col(YearRows(frame, y), regions)), sel, NaN)

heatmap_of(frame, y, sel, regions) ==
    HeatMatrix(MonthGroups(ensure_total_col(YearRows(frame, y), regions)), sel, 0)

\* Lines 166-173: the rows of the line chart, <<month, total, ym>>.
TrendRows(s, y) == [i \in 1..Len(s) |-> <<s[i][1], s[i][2], y * 100 + s[i][1]>>]

trend_of(frame, y, regions) == TrendRows(monthly_series(frame, y, regions), y)

-----------------------------------------------------------------------------
(* The files the model loads.                                              *)

\* Year-months of the generated rows: two months of one year and one month
\* of the next, so a year can have or lack its predecessor.
YearMonths == {202003, 202007, 202103}

GenRegions == <<"A", "B">>

\* Raw cells of the generated rows.  A region cell is a count or, for the
\* first region in the first year, blank; a total cell is blank or a count
\* that differs from the row's region sum.
RegionCells(c, ym) ==
    IF c = "A" THEN (IF ym < 202100 THEN {<<>>, <<5>>} ELSE {<<5>>}) ELSE {<<3>>}

TotalCells(ym) ==
    {<<>>, IF ym = 202003 THEN <<10>> ELSE IF ym = 202007 THEN <<20>> ELSE <<1500>>}

GenColumns(hasTotal) ==
    <<"ym">> \o GenRegions \o (IF hasTotal THEN <<"total">> ELSE <<>>)

GenRows(hasTotal) ==
    UNION {{[c \in Range(GenColumns(hasTotal)) |->
                IF c = "ym" THEN y
                ELSE IF c = "total" THEN t
                ELSE IF c = "A" THEN a ELSE b] :
            t \in (IF hasTotal THEN TotalCells(y) ELSE {<<>>}),
            a \in RegionCells("A", y), b \in RegionCells("B", y)} :
           y \in YearMonths}

\* Rows are generated in one canonical order (by year-month, then by cell
\* contents): the order of the rows of a file changes no output.
CellCode(c) == IF c = <<>> THEN 0 ELSE c[1] + 1

RowCode(r, cols) ==
    [j \in 1..Len(cols) |-> IF cols[j] = "ym" THEN r["ym"] ELSE CellCode(r[cols[j]])]

RECURSIVE LexLeq(_, _)
LexLeq(a, b) ==
    IF a = <<>> THEN TRUE
    ELSE IF Head(a) # Head(b) THEN Head(a) < Head(b)
    ELSE LexLeq(Tail(a), Tail(b))

GenFiles ==
    UNION {UNION {
        {[columns |-> GenColumns(hasTotal), rows |-> rows] :
            rows \in {q \in [1..n -> GenRows(hasTotal)] :
                        \A i \in 1..(n - 1) :
                            LexLeq(RowCode(q[i], GenColumns(hasTotal)),
                                   RowCode(q[i + 1], GenColumns(hasTotal)))}} :
        n \in 1..MaxRows} : hasTotal \in BOOLEAN}

\* A file with more regions than the ranking shows: one row per month of
\* one year, no total column, the counts of the first row rotated by one
\* region per month.  Two pairs of regions are tied in every row.
WideRegions == <<"A", "B", "C", "D", "E", "F">>
WideCounts == <<<<5>>, <<5>>, <<3>>, <<1>>, <<1>>, <<>>>>

WideFile ==
    [columns |-> <<"ym">> \o WideRegions,
     rows    |-> [k \in 1..LastMonth |->
                    [c \in {"ym"} \cup Range(WideRegions) |->
                        IF c = "ym" THEN 202200 + k
                        ELSE LET j == CHOOSE j \in 1..Len(WideRegions) :
                                          WideRegions[j] = c
                             IN  WideCounts[((j + k - 2) % Len(WideRegions)) + 1]]]]

CsvInputs == GenFiles \cup {WideFile}

\* The multiselect: picking an option appends it to the selection, the x
\* of a selected option removes it.
multiselect_add(sel, r) == Append(sel, r)

multiselect_remove(sel, r) == SelectSeq(sel, LAMBDA x : x # r)

-----------------------------------------------------------------------------
(* One complete run of the script with the given widget values.            *)

\* Lines 150-160 and everything after them, given the values computed so
\* far.  col[0] calls idxmax and idxmin unless it takes the warning branch;
\* an exception there ends the run.
Columns(frame, regions, y, sel, rows, sums, err) ==
    /\ df_selected' = rows
    /\ total_cases' = total_cases_of(rows, sel)
    /\ fault' = err
    /\ region_sums' = IF no_regions(sel) THEN <<>> ELSE sums
    /\ max_metric' = IF no_regions(sel) \/ err # "none" THEN <<>>
                     ELSE <<idxmax(sums), Max(Range(Values(sums)))>>
    /\ min_metric' = IF no_regions(sel) \/ err # "none" THEN <<>>
                     ELSE <<idxmin(sums), Min(Range(Values(sums)))>>
    /\ trend' = IF err = "none" THEN trend_of(frame, y, regions) ELSE <<>>
    /\ region_sums_df' = IF no_regions(sel) \/ err # "none" THEN <<>> ELSE sums
    /\ heatmap_data' = IF no_regions(sel) \/ err # "none" THEN <<>>
                       ELSE heatmap_of(frame, y, sel, regions)
    /\ top_regions' \in IF no_regions(sel) \/ err # "none" THEN {<<>>}
                        ELSE top_regions_outcomes(sums)
    /\ shown' = IF err # "none"
                THEN [maxmin |-> "exception", bar |-> "none",
                      heatmap |-> "none", top |-> "none"]
                ELSE IF no_regions(sel)
                THEN [maxmin |-> "warning", bar |-> "info",
                      heatmap |-> "info", top |-> "info"]
                ELSE [maxmin |-> "metric", bar |-> "chart",
                      heatmap |-> "chart", top |-> "chart"]

Aggregate(frame, regions, y, sel, rows, sums) ==
    Columns(frame, regions, y, sel, rows, sums,
            IF no_regions(sel) THEN "none"
            ELSE IF idxmax(sums) = "ValueError" \/ idxmin(sums) = "ValueError"
                 THEN "ValueError" ELSE "none")

\* Lines 97-123: the sidebar's year-to-date metric.
Sidebar(frame, y, series, cur, prev) ==
    /\ monthly_total' = series
    /\ ytd' = cur
    /\ ytd_prev' = IF has_prev(frame, y) THEN <<prev>> ELSE <<>>
    /\ delta_str' = IF has_prev(frame, y) THEN format_signed(cur - prev) ELSE <<>>

YearToDate(frame, regions, y, m, series) ==
    Sidebar(frame, y, series, loc_sum(series, 1, m),
            loc_sum(monthly_series(frame, y - 1, regions), 1, m))

Body(frame, regions, y, m, sel, rows) ==
    /\ df' = frame
    /\ selected_year' = y
    /\ selected_month' = m
    /\ selected_regions' = sel
    /\ YearToDate(frame, regions, y, m, monthly_series(frame, y, regions))
    /\ Aggregate(frame, regions, y, sel, rows, region_sums_of(rows, sel))

Run(frame, regions, y, m, sel) ==
    Body(frame, regions, y, m, sel, df_selected_of(frame, y, m, regions))

-----------------------------------------------------------------------------
(* The state machine.                                                      *)

Init ==
    /\ pc = "start"
    /\ csv \in CsvInputs
    /\ df = [columns |-> <<>>, rows |-> <<>>]
    /\ selected_year = 0
    /\ selected_month = 0
    /\ selected_regions = <<>>
    /\ monthly_total = <<>>
    /\ ytd = 0
    /\ ytd_prev = <<>>
    /\ delta_str = <<>>
    /\ df_selected = [columns |-> <<>>, rows |-> <<>>]
    /\ total_cases = 0
    /\ region_sums = <<>>
    /\ max_metric = <<>>
    /\ min_metric = <<>>
    /\ trend = <<>>
    /\ region_sums_df = <<>>
    /\ heatmap_data = <<>>
    /\ top_regions = <<>>
    /\ shown = [maxmin |-> "none", bar |-> "none", heatmap |-> "none",
                top |-> "none"]
    /\ fault = "none"

\* First run: every widget returns its default (index=0 of the sorted
\* years, the year's last month with data, all regions).
FirstRun(frame, regions) ==
    Run(frame, regions, year_options(frame)[1],
        default_month(frame, year_options(frame)[1]), regions)

Load ==
    /\ pc = "start"
    /\ pc' = "ready"
    /\ UNCHANGED csv
    /\ FirstRun(LoadedFrame(csv), regions_all(csv))

\* Choosing another year.  The month selectbox is created with
\* index=default_month-1; when the new year has another default the widget
\* may come back with that default.
SelectYear(y) ==
    /\ pc = "ready"
    /\ y \in Range(year_options(df))
    /\ y # selected_year
    /\ UNCHANGED <<pc, csv>>
    /\ \E m \in {selected_month, default_month(df, y)} :
          Run(df, regions_all(csv), y, m, selected_regions)

\* Choosing another month.
SelectMonth(m) ==
    /\ pc = "ready"
    /\ m \in Range(MonthRange)
    /\ m # selected_month
    /\ UNCHANGED <<pc, csv>>
    /\ Run(df, regions_all(csv), selected_year, m, selected_regions)

AddRegion(r) ==
    /\ pc = "ready"
    /\ r \in Range(regions_all(csv)) \ Range(selected_regions)
    /\ Len(selected_regions) < MaxPick
    /\ UNCHANGED <<pc, csv>>
    /\ Run(df, regions_all(csv), selected_year, selected_month,
           multiselect_add(selected_regions, r))

RemoveRegion(r) ==
    /\ pc = "ready"
    /\ r \in Range(selected_regions)
    /\ UNCHANGED <<pc, csv>>
    /\ Run(df, regions_all(csv), selected_year, selected_month,
           multiselect_remove(selected_regions, r))

Next ==
    \/ Load
    \/ \E y \in YearsOf(df) : SelectYear(y)
    \/ \E m \in Range(MonthRange) : SelectMonth(m)
    \/ \E r \in Range(regions_all(csv)) : AddRegion(r)
    \/ \E r \in Range(regions_all(csv)) : RemoveRegion(r)

Spec == Init /\ [][Next]_vars

-----------------------------------------------------------------------------
(* What the properties below are stated in: the records of df, read         *)
(* directly, without the operators of the model.                            *)

Ready == pc = "ready"

\* The records of df of year y and month k, in file order.
PeriodRecords(y, k) ==
    SelectSeq(df.rows, LAMBDA r : r["year"] = y /\ r["month"] = k)

YearRecords(y) == SelectSeq(df.rows, LAMBDA r : r["year"] = y)

\* Sum of column c over the given records, a missing value counting as 0.
RECURSIVE SumColumn(_, _)
SumColumn(recs, c) ==
    IF recs = <<>> THEN 0
    ELSE (IF Head(recs)[c] = NaN THEN 0 ELSE Head(recs)[c])
         + SumColumn(Tail(recs), c)

\* Sum over the given records of the values of all region columns.
RECURSIVE SumRegions(_, _)
SumRegions(recs, regions) ==
    IF regions = <<>> THEN 0
    ELSE SumColumn(recs, Head(regions)) + SumRegions(recs, Tail(regions))

AllRegions == SelectSeq(df.columns, LAMBDA c : c \notin {"ym", "year", "month", "total"})

\* Every record of year y has a missing total.
TotalsAllMissing(y) == \A i \in 1..Len(YearRecords(y)) : YearRecords(y)[i]["total"] = NaN

\* The month's value in the series of year y: the sum of the totals, or,
\* when the year has no total at all, the sum of the region values.
MonthValue(y, k) ==
    IF TotalsAllMissing(y) THEN SumRegions(PeriodRecords(y, k), AllRegions)
    ELSE SumColumn(PeriodRecords(y, k), "total")

RECURSIVE SumMonths(_, _)
SumMonths(y, m) == IF m = 0 THEN 0 ELSE MonthValue(y, m) + SumMonths(y, m - 1)

SeriesValues == [k \in 1..Len(monthly_total) |-> monthly_total[k][2]]

-----------------------------------------------------------------------------
(* C1 *)

\* C1 as stated: after every run the monthly series of the selected year
\* (and the trend line built the same way) has 12 entries, for months 1..12
\* in ascending order, and the entry of month k is the sum of the total
\* column over the records of (year, k), a missing total counting as 0.
C1_AsStated ==
    Ready =>
        /\ Len(monthly_total) = 12
        /\ \A k \in 1..12 :
              /\ monthly_total[k] =
                    <<k, SumColumn(PeriodRecords(selected_year, k), "total")>>
              /\ trend[k] =
                    <<k, SumColumn(PeriodRecords(selected_year, k), "total"),
                      selected_year * 100 + k>>

\* C1, amended: after every run the monthly series of the selected year and
\* the trend line have 12 entries, for months 1..12 in ascending order; the
\* entry of month k is the sum of the total column over the records of
\* (year, k), a missing total counting as 0, unless every record of that
\* year has a missing total, in which case it is the sum of all region
\* values of the records of (year, k); it is 0 when (year, k) has no record.
C1_MonthlySeries ==
    Ready =>
        /\ Len(monthly_total) = 12
        /\ Len(trend) = 12
        /\ \A k \in 1..12 :
              /\ monthly_total[k] = <<k, MonthValue(selected_year, k)>>
              /\ trend[k] = <<k, MonthValue(selected_year, k),
                              selected_year * 100 + k>>
              /\ PeriodRecords(selected_year, k) = <<>> => monthly_total[k][2] = 0

\* Records only in months 3 and 7, with totals 10 and 20.
C1_Witness ==
    /\ Ready
    /\ Len(YearRecords(selected_year)) = 2
    /\ SeriesValues = <<0, 0, 10, 0, 0, 0, 20, 0, 0, 0, 0, 0>>

-----------------------------------------------------------------------------
(* C2 *)

\* C2: the displayed year-to-date value is the sum of the selected year's
\* 12-month series over months 1..selected_month, both included; it is 0
\* when the year has no record in those months.
C2_YearToDate ==
    Ready =>
        /\ ytd = SumSeq(SubSeq(SeriesValues, 1, selected_month))
        /\ (\A k \in 1..selected_month : PeriodRecords(selected_year, k) = <<>>)
              => ytd = 0
        /\ SeriesValues = <<0, 0, 10, 0, 0, 0, 20, 0, 0, 0, 0, 0>> =>
              /\ selected_month = 7 => ytd = 30
              /\ selected_month = 2 => ytd = 0

\* The series of the example with the cutoff on its last non-zero month.
C2_Witness ==
    /\ Ready
    /\ SeriesValues = <<0, 0, 10, 0, 0, 0, 20, 0, 0, 0, 0, 0>>
    /\ selected_month = 7
    /\ ytd = 30

-----------------------------------------------------------------------------
(* C3 *)

DigitOf(ch) == CHOOSE d \in 0..9 : DigitChars[d + 1] = ch

RECURSIVE ParseDigits(_, _)
ParseDigits(chars, acc) ==
    IF chars = <<>> THEN acc
    ELSE IF Head(chars) = "," THEN ParseDigits(Tail(chars), acc)
    ELSE ParseDigits(Tail(chars), acc * 10 + DigitOf(Head(chars)))

\* The number a displayed delta reads as.
ParseSigned(chars) ==
    IF Head(chars) = "-" THEN 0 - ParseDigits(Tail(chars), 0)
    ELSE ParseDigits(Tail(chars), 0)

\* C3: a delta is displayed exactly when the dataset has a record of the
\* year before the selected one; it then reads as the selected year's
\* year-to-date value minus the previous year's up to the same month (with
\* its sign, also when it is 0), and otherwise there is no delta and no
\* previous value at all.
C3_Delta ==
    Ready =>
        /\ (delta_str # <<>>) <=> (YearRecords(selected_year - 1) # <<>>)
        /\ delta_str # <<>> =>
              /\ Head(delta_str) \in {"+", "-"}
              /\ ytd_prev = <<SumMonths(selected_year - 1, selected_month)>>
              /\ ParseSigned(delta_str) =
                    ytd - SumMonths(selected_year - 1, selected_month)
        /\ delta_str = <<>> => ytd_prev = <<>>

\* A negative delta is displayed.
C3_Witness ==
    /\ Ready
    /\ delta_str # <<>>
    /\ Head(delta_str) = "-"
    /\ ytd < ytd_prev[1]

-----------------------------------------------------------------------------
(* C4 *)

\* C4 as stated: the total tile is the sum, over the selected rows, of the
\* values of the selected regions.
C4_AsStated ==
    Ready => total_cases = SumRegions(df_selected.rows, selected_regions)

\* C4, amended: the total tile is the sum of the total column over the
\* selected rows, a missing total counting as 0, whatever regions are
\* selected; deselecting a region does not change it.
C4_TotalTile ==
    Ready => total_cases = SumColumn(df_selected.rows, "total")

\* A region with a non-zero value is deselected and the tile still shows
\* the rows' total.
C4_Witness ==
    /\ Ready
    /\ total_cases > 0
    /\ \E r \in Range(AllRegions) \ Range(selected_regions) :
          SumColumn(df_selected.rows, r) > 0
    /\ total_cases # SumRegions(df_selected.rows, selected_regions)

-----------------------------------------------------------------------------
(* C5 *)

\* The tables ensure_total_col is applied to in a run: the loaded file
\* (line 52) and the rows of each year (lines 98, 108, 167, 220).
EnsuredTables ==
    {load_data(csv)} \cup {YearRows(df, y) : y \in YearsOf(df)}

\* What C5 says of one table and of what ensure_total_col returned for it.
TotalEnsured(before, after) ==
    IF ~InColumns(before, "total")
       \/ \A i \in 1..Len(before.rows) : before.rows[i]["total"] = NaN
    THEN /\ Len(after.rows) = Len(before.rows)
         /\ \A i \in 1..Len(after.rows) :
               /\ after.rows[i]["total"] # NaN
               /\ after.rows[i]["total"] =
                     SumRegions(<<before.rows[i]>>, AllRegions)
               /\ \A c \in Range(before.columns) \ {"total"} :
                     after.rows[i][c] = before.rows[i][c]
    ELSE after = before

\* C5: for every table a run hands to ensure_total_col: when the total
\* column is absent or missing in every row, each row's total becomes the
\* sum of the row's values over all region columns, a missing value
\* counting as 0, and no total is missing afterwards; otherwise the table is
\* returned unchanged, its missing totals and the totals that differ from
\* the row's region sum included.
C5_EnsureTotal ==
    Ready =>
        /\ \A t \in EnsuredTables :
              TotalEnsured(t, ensure_total_col(t, regions_all(csv)))
        /\ df = ensure_total_col(load_data(csv), regions_all(csv))

\* The loaded table keeps a missing total beside a total that differs from
\* its row's region sum, and the rows of the selected year, whose totals
\* are all missing, get their region sums.
C5_Witness ==
    /\ Ready
    /\ \E i, j \in 1..Len(df.rows) :
          /\ df.rows[i]["total"] = NaN
          /\ df.rows[j]["total"] # NaN
          /\ df.rows[j]["total"] # SumRegions(<<df.rows[j]>>, AllRegions)
    /\ TotalsAllMissing(selected_year)
    /\ \E k \in 1..12 : monthly_total[k][2] = 8

-----------------------------------------------------------------------------
(* C6 *)

PositionIn(seq, x) == CHOOSE i \in 1..Len(seq) : seq[i] = x

\* The sum of region r over the selected rows.
RegionSum(r) == SumColumn(df_selected.rows, r)

\* The first region, in the order of the selection, whose sum is v.
FirstWithSum(v) ==
    selected_regions[CHOOSE i \in 1..Len(selected_regions) :
        /\ RegionSum(selected_regions[i]) = v
        /\ \A j \in 1..(i - 1) : RegionSum(selected_regions[j]) # v]

MaxSum == Max({RegionSum(r) : r \in Range(selected_regions)})
MinSum == Min({RegionSum(r) : r \in Range(selected_regions)})

ExtremesByFirst ==
    /\ max_metric = <<FirstWithSum(MaxSum), MaxSum>>
    /\ min_metric = <<FirstWithSum(MinSum), MinSum>>

\* The ranking is a ranking: the right length, each row a selected region
\* with its sum, no region twice, sums descending, and no region left out
\* that has a larger sum than one listed.
RankingByValue ==
    /\ Len(top_regions) = (IF Len(selected_regions) < 5
                           THEN Len(selected_regions) ELSE 5)
    /\ \A i \in 1..Len(top_regions) :
          /\ top_regions[i][1] \in Range(selected_regions)
          /\ top_regions[i][2] = RegionSum(top_regions[i][1])
    /\ \A i, j \in 1..Len(top_regions) :
          /\ i # j => top_regions[i][1] # top_regions[j][1]
          /\ i < j => top_regions[i][2] >= top_regions[j][2]
    /\ \A r \in Range(selected_regions) :
          (\A i \in 1..Len(top_regions) : top_regions[i][1] # r) =>
              \A i \in 1..Len(top_regions) : top_regions[i][2] >= RegionSum(r)

\* Equal sums appear in the order of the selection, and a region is left
\* out only for regions of larger sum or earlier regions of the same sum.
TiesInSelectionOrder ==
    /\ \A i, j \in 1..Len(top_regions) :
          (i < j /\ top_regions[i][2] = top_regions[j][2]) =>
              PositionIn(selected_regions, top_regions[i][1])
                  < PositionIn(selected_regions, top_regions[j][1])
    /\ \A r \in Range(selected_regions) :
          (\A i \in 1..Len(top_regions) : top_regions[i][1] # r) =>
              \A i \in 1..Len(top_regions) :
                  top_regions[i][2] = RegionSum(r) =>
                      PositionIn(selected_regions, top_regions[i][1])
                          < PositionIn(selected_regions, r)

-----------------------------------------------------------------------------
(* C7 *)

\* C7: no run ends in an exception; with an empty selection nothing is
\* computed from the region subset (no sums, no max or min tile, no bar
\* data, no heat map, no ranking) and each of these slots shows its
\* advisory instead; with a non-empty selection none shows an advisory.
C7_EmptySelection ==
    Ready =>
        /\ fault = "none"
        /\ selected_regions = <<>> =>
              /\ region_sums = <<>>
              /\ max_metric = <<>>
              /\ min_metric = <<>>
              /\ region_sums_df = <<>>
              /\ heatmap_data = <<>>
              /\ top_regions = <<>>
              /\ shown = [maxmin |-> "warning", bar |-> "info",
                          heatmap |-> "info", top |-> "info"]
        /\ selected_regions # <<>> =>
              shown = [maxmin |-> "metric", bar |-> "chart",
                       heatmap |-> "chart", top |-> "chart"]

\* Every region deselected, on a month that has records with counts.
C7_Witness ==
    /\ Ready
    /\ selected_regions = <<>>
    /\ shown.maxmin = "warning"
    /\ PeriodRecords(selected_year, selected_month) # <<>>
    /\ SumRegions(df_selected.rows, AllRegions) > 0

-----------------------------------------------------------------------------
(* C8 *)

\* C8: when the dataset has no record of the selected (year, month), the
\* selected rows are one record with total 0, every region value 0 and the
\* selected year, month and year-month, so the tile and all region sums
\* are 0; when it has, they are exactly the records of that (year, month).
\* No row of another period is ever among them, and no run fails.
C8_SelectedRows ==
    Ready =>
        /\ fault = "none"
        /\ \A i \in 1..Len(df_selected.rows) :
              /\ df_selected.rows[i]["year"] = selected_year
              /\ df_selected.rows[i]["month"] = selected_month
              /\ df_selected.rows[i]["ym"] = selected_year * 100 + selected_month
        /\ PeriodRecords(selected_year, selected_month) = <<>> =>
              /\ Len(df_selected.rows) = 1
              /\ df_selected.rows[1]["total"] = 0
              /\ \A r \in Range(AllRegions) : df_selected.rows[1][r] = 0
              /\ total_cases = 0
              /\ \A i \in 1..Len(region_sums) : region_sums[i][2] = 0
              /\ \A i \in 1..Len(top_regions) : top_regions[i][2] = 0
        /\ PeriodRecords(selected_year, selected_month) # <<>> =>
              df_selected.rows = PeriodRecords(selected_year, selected_month)

\* No record of the selected period, while another year has a record of
\* the same month with counts.
C8_Witness ==
    /\ Ready
    /\ PeriodRecords(selected_year, selected_month) = <<>>
    /\ \E i \in 1..Len(df.rows) :
          /\ df.rows[i]["month"] = selected_month
          /\ df.rows[i]["year"] # selected_year
          /\ df.rows[i]["total"] > 0
    /\ selected_regions # <<>>
    /\ total_cases = 0

-----------------------------------------------------------------------------
(* C9 *)

\* C9: with a non-empty selection the heat map has exactly one row per
\* selected region and 12 columns, months 1..12; cell (r, k) is the sum of
\* region r over all records of (year, k), a missing value counting as 0,
\* and is the number 0, never missing, when (year, k) has no record.
C9_Heatmap ==
    (Ready /\ selected_regions # <<>>) =>
        /\ DOMAIN heatmap_data = Range(selected_regions)
        /\ \A r \in Range(selected_regions) :
              /\ DOMAIN heatmap_data[r] = 1..12
              /\ \A k \in 1..12 :
                    /\ heatmap_data[r][k] # NaN
                    /\ heatmap_data[r][k] =
                          SumColumn(PeriodRecords(selected_year, k), r)
                    /\ PeriodRecords(selected_year, k) = <<>> =>
                          heatmap_data[r][k] = 0

\* Two records of one year-month, both with a count for the region: the
\* cell holds their sum; other months have no record.
C9_Witness ==
    /\ Ready
    /\ "A" \in Range(selected_regions)
    /\ \E k \in 1..12 :
          /\ Len(PeriodRecords(selected_year, k)) = 2
          /\ heatmap_data["A"][k] = 10
    /\ \E k \in 1..12 :
          /\ PeriodRecords(selected_year, k) = <<>>
          /\ heatmap_data["A"][k] = 0

-----------------------------------------------------------------------------
(* C10 *)

\* C10: the total tile equals the entry of the selected month in the
\* 12-month series of the selected year, hence ytd(m) - ytd(m - 1).
C10_TileMatchesSeries ==
    Ready =>
        /\ total_cases = monthly_total[selected_month][2]
        /\ total_cases = ytd - SumSeq(SubSeq(SeriesValues, 1, selected_month - 1))

====
